---- MODULE Spec2Model ----
(***************************************************************************)
(* RangeMap<T> (RangeMap.h): the breakpoint table Tab and the active-set  *)
(* table IList, built by an offline sweep in Build and read by Query.     *)
(* The values of T are MINV..MAXV, its least and greatest value (the      *)
(* numeric limits of an integral T, the infinities of a floating T).      *)
(* Interval indices are the 0-based indices of the source; vectors are    *)
(* sequences read through At (0-based).  Build is modelled step by step:  *)
(* the filter loop, the two sorts, the reset of the tables, each          *)
(* iteration of the sweep loop, and the tail.  In the step operators nd   *)
(* tells whether the build defines NDEBUG (assert compiled out).          *)
(***************************************************************************)
EXTENDS Integers, Sequences, FiniteSets, TLC

\* ---------------------------------------------------------------- bounds
MaxN == 2        \* largest interval count N passed to Build
MaxVal == 3      \* numeric_limits<T>::max() of the modelled domain type
MaxReuse == 3    \* a built instance is rebuilt only if N + Tab.size() <= MaxReuse

\* --------------------------------------------------------------- domain
MINV == 0
MAXV == MaxVal
Dom == MINV..MAXV
Empty == <<>>

VARIABLES
    rm,      \* the instance: [Tab, IList, capTab, capIL]
    arg,     \* arguments of the latest Build call: [S, E, N, Snull, Enull]
    loc,     \* locals of Build: [SS, SE, capSS, capSE, i, NF, i1, i2, AS, iter]
    pc,      \* "idle", "filter", "reset", "sweep", "queried", "aborted"
    failed,  \* which assertion aborted the process ("none" if none)
    skipped, \* TRUE once a false assertion was passed over (NDEBUG build)
    q        \* latest Query: [p, It, idx, res, ub]

vars == <<rm, arg, loc, pc, failed, skipped, q>>

\* -------------------------------------------------------------- helpers
At(v, k) == v[k + 1]
Size(v) == Len(v)
Max2(a, b) == IF a > b THEN a ELSE b
Range(v) == {v[k] : k \in 1..Len(v)}

\* a reserve that is one element short
Reserve_OneShort(cap, n) == Max2(cap, n - 1)

\* vector::reserve(n): capacity grows to n, never shrinks
Reserve(cap, n) == Max2(cap, n)

\* a clear that is left out
Clear_KeepsElements(v) == v

\* vector::clear(): no elements, capacity kept
Clear(v) == <<>>

\* vector::push_back: reallocates (doubling) when the capacity is used up
GrowCap(cap, v) == IF cap > Size(v) THEN cap ELSE Max2(1, 2 * cap)

\* the condition PUSHBACK asserts before the append
CapOK(cap, v) == cap > Size(v)

\* a snapshot that iterates the set from its largest element
RECURSIVE Snapshot_Descending(_)
Snapshot_Descending(A) ==
    IF A = {} THEN <<>>
    ELSE LET x == CHOOSE y \in A : \A z \in A : y >= z
         IN <<x>> \o Snapshot_Descending(A \ {x})

\* std::vector<size_t>(AS.begin(), AS.end()): the set in ascending order
RECURSIVE Snapshot(_)
Snapshot(A) ==
    IF A = {} THEN <<>>
    ELSE LET x == CHOOSE y \in A : \A z \in A : y <= z
         IN <<x>> \o Snapshot(A \ {x})

\* std::sort with comparator K[i1] < K[i2]: any permutation of ids in which
\* no later element compares less than an earlier one (ties in any order)
Perms(ids) ==
    {p \in [1..Len(ids) -> Range(ids)] : \A j, k \in 1..Len(ids) : j # k => p[j] # p[k]}
SortOutcomes(ids, K) ==
    {p \in Perms(ids) : \A j, k \in 1..Len(ids) : j < k => ~(At(K, p[k]) < At(K, p[j]))}

\* the states of a fresh object and of a caller that has not called Build
FreshRM == [Tab |-> <<>>, IList |-> <<>>, capTab |-> 0, capIL |-> 0]
NoArg == [S |-> <<>>, E |-> <<>>, N |-> 0, Snull |-> TRUE, Enull |-> TRUE]
NoLoc == [SS |-> <<>>, SE |-> <<>>, capSS |-> 0, capSE |-> 0, i |-> 0,
          NF |-> 0, i1 |-> 0, i2 |-> 0, AS |-> {}, iter |-> 0]
NoQ == [p |-> MINV, It |-> 0, idx |-> 0, res |-> <<>>, ub |-> FALSE]

\* the machine part a Build step works on
Mach(r, l, c, f) == [rm |-> r, loc |-> l, pc |-> c, failed |-> f]
Abort(m, kind) == [m EXCEPT !.pc = "aborted", !.failed = kind]

\* Build, lines 36-42: the early return, else SS and SE reserved
EmptyInput(a) == a.Snull \/ a.Enull \/ a.N = 0
BuildEntry(m, a) ==
    IF EmptyInput(a) THEN [m EXCEPT !.pc = "idle"]
    ELSE [m EXCEPT !.pc = "filter",
                   !.loc = [NoLoc EXCEPT !.capSS = Reserve(0, a.N),
                                         !.capSE = Reserve(0, a.N)]]

\* a filter loop that keeps the empty intervals [a, a)
FilterBody_KeepsDegenerate(m, a, nd) ==
    LET L == m.loc IN
    IF ~nd /\ (~CapOK(L.capSS, L.SS) \/ ~CapOK(L.capSE, L.SE))
    THEN Abort(m, "pushback")
    ELSE [m EXCEPT !.loc.SS = Append(@, L.i),
                   !.loc.capSS = GrowCap(@, L.SS),
                   !.loc.SE = Append(@, L.i),
                   !.loc.capSE = GrowCap(@, L.SE),
                   !.loc.i = @ + 1]

\* Build, lines 43-48: one iteration of the filter loop
FilterBody(m, a, nd) ==
    LET L == m.loc IN
    IF At(a.S, L.i) # At(a.E, L.i)
    THEN IF ~nd /\ (~CapOK(L.capSS, L.SS) \/ ~CapOK(L.capSE, L.SE))
         THEN Abort(m, "pushback")
         ELSE [m EXCEPT !.loc.SS = Append(@, L.i),
                        !.loc.capSS = GrowCap(@, L.SS),
                        !.loc.SE = Append(@, L.i),
                        !.loc.capSE = GrowCap(@, L.SE),
                        !.loc.i = @ + 1]
    ELSE [m EXCEPT !.loc.i = @ + 1]

\* Build, lines 49-52: NF and the two argsorts (ss, se: the sort results)
SortBody(m, ss, se) ==
    [m EXCEPT !.loc.NF = Size(m.loc.SS), !.loc.SS = ss, !.loc.SE = se,
              !.pc = "reset"]

\* PUSHBACK(Tab, v); PUSHBACK(IList, s): each append asserts spare capacity
PUSHBACK(m, nd, v, s) ==
    IF ~nd /\ ~CapOK(m.rm.capTab, m.rm.Tab) THEN Abort(m, "pushback")
    ELSE IF ~nd /\ ~CapOK(m.rm.capIL, m.rm.IList) THEN Abort(m, "pushback")
    ELSE [m EXCEPT !.rm.Tab = Append(@, v),
                   !.rm.capTab = GrowCap(@, m.rm.Tab),
                   !.rm.IList = Append(@, s),
                   !.rm.capIL = GrowCap(@, m.rm.IList)]

\* a minimum sentinel that is always appended
NeedMin_Always(a, L) == TRUE

\* Build, lines 53-67: tables cleared and reserved, sweep locals set, and
\* the minimum sentinel unless the smallest start is already MINV
NeedMin(a, L) == L.NF = 0 \/ At(a.S, At(L.SS, 0)) > MINV
ResetBody(m, a, nd) ==
    LET m1 == [m EXCEPT !.rm.Tab = Clear(@),
                        !.rm.IList = Clear(@),
                        !.rm.capTab = Reserve(@, m.loc.NF * 2 + 2),
                        !.rm.capIL = Reserve(@, m.loc.NF * 2 + 2),
                        !.loc.i1 = 0, !.loc.i2 = 0, !.loc.AS = {},
                        !.pc = "sweep"]
    IN IF NeedMin(a, m.loc) THEN PUSHBACK(m1, nd, MINV, Empty) ELSE m1

\* Build, line 68: the loop condition
SweepCond(L) == (L.i1 < L.NF) \/ (L.i2 < L.NF)

\* a merge that takes the pending start whenever there is one
NextV_StartFirst(a, L) ==
    IF L.i1 < L.NF THEN At(a.S, At(L.SS, L.i1)) ELSE At(a.E, At(L.SE, L.i2))

\* Build, line 70: the next value to merge
NextV(a, L) ==
    IF (L.i1 >= L.NF) \/ ((L.i2 < L.NF) /\
                          (At(a.S, At(L.SS, L.i1)) >= At(a.E, At(L.SE, L.i2))))
    THEN At(a.E, At(L.SE, L.i2))
    ELSE At(a.S, At(L.SS, L.i1))

\* Build, lines 72-73: intervals opening at v enter the active set
RECURSIVE Opening(_, _, _)
Opening(a, L, v) ==
    IF (L.i1 < L.NF) /\ (At(a.S, At(L.SS, L.i1)) = v)
    THEN Opening(a, [L EXCEPT !.AS = @ \cup {At(L.SS, L.i1)}, !.i1 = @ + 1], v)
    ELSE L

\* a closing loop that forgets to erase
RECURSIVE Closing_KeepsActive(_, _, _)
Closing_KeepsActive(a, L, v) ==
    IF (L.i2 < L.NF) /\ (At(a.E, At(L.SE, L.i2)) = v)
    THEN Closing_KeepsActive(a, [L EXCEPT !.i2 = @ + 1], v)
    ELSE L

\* Build, lines 74-75: intervals closing at v leave the active set
RECURSIVE Closing(_, _, _)
Closing(a, L, v) ==
    IF (L.i2 < L.NF) /\ (At(a.E, At(L.SE, L.i2)) = v)
    THEN Closing(a, [L EXCEPT !.AS = @ \ {At(L.SE, L.i2)}, !.i2 = @ + 1], v)
    ELSE L

\* the two assertions of lines 79-80 on the newest entries
TabDiffer(r) ==
    Size(r.Tab) < 2 \/ At(r.Tab, Size(r.Tab) - 1) # At(r.Tab, Size(r.Tab) - 2)
IListDiffer(r) ==
    Size(r.IList) < 2 \/
    At(r.IList, Size(r.IList) - 1) # At(r.IList, Size(r.IList) - 2)

\* Build, lines 69-80: one iteration of the sweep loop
SweepBody(m, a, nd) ==
    LET v == NextV(a, m.loc)
        L2 == Closing(a, Opening(a, m.loc, v), v)
        m1 == [m EXCEPT !.loc = [L2 EXCEPT !.iter = @ + 1]]
        m2 == PUSHBACK(m1, nd, v, Snapshot(L2.AS))
    IN IF m2.pc = "aborted" THEN m2
       ELSE IF ~nd /\ ~TabDiffer(m2.rm) THEN Abort(m2, "tab")
       ELSE IF ~nd /\ ~IListDiffer(m2.rm) THEN Abort(m2, "ilist")
       ELSE m2

\* Build, lines 82-87: the maximum sentinel unless the largest end is MAXV;
\* Build returns and its locals are destroyed
NeedMax(a, L) == L.NF = 0 \/ At(a.E, At(L.SE, L.NF - 1)) < MAXV
TailBody(m, a, nd) ==
    LET m1 == IF NeedMax(a, m.loc) THEN PUSHBACK(m, nd, MAXV, Empty) ELSE m
    IN IF m1.pc = "aborted" THEN m1 ELSE [m1 EXCEPT !.pc = "idle", !.loc = NoLoc]

\* an upper bound search (first entry > p) in place of the lower bound
RECURSIVE LowerBound_Upper(_, _, _, _)
LowerBound_Upper(T, p, first, len) ==
    IF len > 0
    THEN LET half == len \div 2
             mid == first + half
         IN IF At(T, mid) <= p
            THEN LowerBound_Upper(T, p, mid + 1, len - half - 1)
            ELSE LowerBound_Upper(T, p, first, half)
    ELSE first

\* std::lower_bound(Tab.begin(), Tab.end(), p): the binary search over
\* [first, first + len), returning the 0-based position (Size(Tab) = end)
RECURSIVE LowerBound(_, _, _, _)
LowerBound(T, p, first, len) ==
    IF len > 0
    THEN LET half == len \div 2
             mid == first + half
         IN IF At(T, mid) < p
            THEN LowerBound(T, p, mid + 1, len - half - 1)
            ELSE LowerBound(T, p, first, half)
    ELSE first

\* Query, lines 93-95: position found and the index read from IList
QueryIt(r, p) == LowerBound(r.Tab, p, 0, Size(r.Tab))
QueryIdx(r, p) ==
    LET It == QueryIt(r, p)
    IN It - (IF At(r.Tab, It) > p THEN 1 ELSE 0)

\* SlowCheck (RMTest.cpp): the brute-force scan over i = 0..N-1
RECURSIVE SlowScan(_, _, _, _, _)
SlowScan(x, Sv, Ev, n, k) ==
    IF k >= n THEN <<>>
    ELSE (IF (At(Sv, k) <= x) /\ (x < At(Ev, k)) THEN <<k>> ELSE <<>>)
         \o SlowScan(x, Sv, Ev, n, k + 1)
SlowCheck(x, Sv, Ev, n) == SlowScan(x, Sv, Ev, n, 0)

\* ------------------------------------------------------- state machine
Init ==
    /\ rm = FreshRM
    /\ arg = NoArg
    /\ loc = NoLoc
    /\ pc = "idle"
    /\ failed = "none"
    /\ skipped = FALSE
    /\ q = NoQ

SetMach(m) ==
    /\ rm' = m.rm
    /\ loc' = m.loc
    /\ pc' = m.pc
    /\ failed' = m.failed

Cur == Mach(rm, loc, pc, failed)

\* assert(c): with assertions compiled in (mOn) a false c aborts; a build
\* that defines NDEBUG (mOff) passes over it.  Which build runs shows only
\* at the first false assertion, and stays the same from then on.
Outcomes(mOn, mOff) ==
    IF mOn = mOff THEN {<<mOn, skipped>>}
    ELSE IF skipped THEN {<<mOff, TRUE>>}
    ELSE {<<mOn, FALSE>>, <<mOff, TRUE>>}
Step(mOn, mOff) ==
    \E o \in Outcomes(mOn, mOff) : SetMach(o[1]) /\ skipped' = o[2]

\* the arrays a caller can pass: a null pointer or n values of the domain
Arrays(n) == [1..n -> Dom]
Inputs ==
    [n \in 0..MaxN |->
        {[S |-> s, E |-> e, N |-> n, Snull |-> FALSE, Enull |-> FALSE] :
            s \in Arrays(n), e \in Arrays(n)}
        \cup {[S |-> <<>>, E |-> e, N |-> n, Snull |-> TRUE, Enull |-> FALSE] :
            e \in Arrays(n)}
        \cup {[S |-> s, E |-> <<>>, N |-> n, Snull |-> FALSE, Enull |-> TRUE] :
            s \in Arrays(n)}
        \cup {[S |-> <<>>, E |-> <<>>, N |-> n, Snull |-> TRUE, Enull |-> TRUE]}]

\* the interval counts explored on this instance: any on an empty table,
\* else those with N + Tab.size() <= MaxReuse
Counts ==
    IF Size(rm.Tab) = 0 THEN 0..MaxN
    ELSE {n \in 0..MaxN : n + Size(rm.Tab) <= MaxReuse}

\* rm.Build(S, E, N) is called; lines 35-42
BuildCall ==
    /\ pc = "idle"
    /\ \E n \in Counts : \E a \in Inputs[n] :
        /\ arg' = a
        /\ SetMach(BuildEntry(Cur, a))
    /\ UNCHANGED <<skipped, q>>

FilterStep ==
    /\ pc = "filter"
    /\ loc.i < arg.N
    /\ Step(FilterBody(Cur, arg, FALSE), FilterBody(Cur, arg, TRUE))
    /\ UNCHANGED <<arg, q>>

SortStep ==
    /\ pc = "filter"
    /\ ~(loc.i < arg.N)
    /\ \E ss \in SortOutcomes(loc.SS, arg.S), se \in SortOutcomes(loc.SE, arg.E) :
        SetMach(SortBody(Cur, ss, se))
    /\ UNCHANGED <<arg, skipped, q>>

ResetStep ==
    /\ pc = "reset"
    /\ Step(ResetBody(Cur, arg, FALSE), ResetBody(Cur, arg, TRUE))
    /\ UNCHANGED <<arg, q>>

SweepStep ==
    /\ pc = "sweep"
    /\ SweepCond(loc)
    /\ Step(SweepBody(Cur, arg, FALSE), SweepBody(Cur, arg, TRUE))
    /\ UNCHANGED <<arg, q>>

TailStep ==
    /\ pc = "sweep"
    /\ ~SweepCond(loc)
    /\ Step(TailBody(Cur, arg, FALSE), TailBody(Cur, arg, TRUE))
    /\ UNCHANGED <<arg, q>>

\* rm.Query(p); lines 92-96.  An index outside IList is undefined
\* behaviour: any result, or a crash
Garbage == {Snapshot(X) : X \in SUBSET (0..(MaxN - 1))}
Query ==
    /\ pc = "idle"
    /\ \E p \in Dom :
        LET It == QueryIt(rm, p) IN
        IF It # Size(rm.Tab)
        THEN LET idx == QueryIdx(rm, p) IN
             IF idx \in 0..(Size(rm.IList) - 1)
             THEN /\ q' = [p |-> p, It |-> It, idx |-> idx,
                           res |-> At(rm.IList, idx), ub |-> FALSE]
                  /\ pc' = "queried"
                  /\ failed' = failed
             ELSE \/ /\ \E g \in Garbage :
                          q' = [p |-> p, It |-> It, idx |-> idx,
                                res |-> g, ub |-> TRUE]
                     /\ pc' = "queried"
                     /\ failed' = failed
                  \/ /\ q' = [p |-> p, It |-> It, idx |-> idx,
                              res |-> <<>>, ub |-> TRUE]
                     /\ pc' = "aborted"
                     /\ failed' = "segv"
        ELSE /\ q' = [p |-> p, It |-> It, idx |-> 0, res |-> Empty, ub |-> FALSE]
             /\ pc' = "queried"
             /\ failed' = failed
    /\ UNCHANGED <<rm, arg, loc, skipped>>

\* the caller has read the result
QueryReturn ==
    /\ pc = "queried"
    /\ pc' = "idle"
    /\ q' = NoQ
    /\ UNCHANGED <<rm, arg, loc, failed, skipped>>

Next ==
    \/ BuildCall
    \/ FilterStep
    \/ SortStep
    \/ ResetStep
    \/ SweepStep
    \/ TailStep
    \/ Query
    \/ QueryReturn

Spec == Init /\ [][Next]_vars

\* ------------------------------------------------- notions of the claims
\* every interval of a non-empty input has start <= end
ValidInput(a) ==
    /\ ~EmptyInput(a)
    /\ \A k \in 0..(a.N - 1) : At(a.S, k) <= At(a.E, k)

\* the latest Build ran to its end on arg (idle, or a Query in between)
Returned == pc \in {"idle", "queried"}

\* the number of non-degenerate intervals of an input
NonDegenerate(a) == {k \in 0..(a.N - 1) : At(a.S, k) # At(a.E, k)}
NFof(a) == Cardinality(NonDegenerate(a))

\* the brute-force definition of the intervals containing p
Oracle(p, a) == {k \in 0..(a.N - 1) : At(a.S, k) <= p /\ p < At(a.E, k)}

StrictAsc(v) == \A j, k \in 1..Len(v) : j < k => v[j] < v[k]

\* the tables a fresh instance holds after Build(a) alone, the two sorts
\* having produced ss and se
RECURSIVE RunFilter(_, _, _)
RunFilter(m, a, nd) ==
    IF m.pc = "filter" /\ m.loc.i < a.N THEN RunFilter(FilterBody(m, a, nd), a, nd)
    ELSE m
RECURSIVE RunSweep(_, _, _)
RunSweep(m, a, nd) ==
    IF m.pc = "sweep" /\ SweepCond(m.loc) THEN RunSweep(SweepBody(m, a, nd), a, nd)
    ELSE m
FreshFiltered(a, nd) ==
    RunFilter(BuildEntry(Mach(FreshRM, NoLoc, "idle", "none"), a), a, nd)
FreshBuild(a, nd, ss, se) ==
    LET m == RunSweep(ResetBody(SortBody(FreshFiltered(a, nd), ss, se), a, nd), a, nd)
    IN IF m.pc = "sweep" THEN TailBody(m, a, nd) ELSE m

\* ---------------------------------------------------------------- C1
\* C1: after Build on N >= 1 intervals with start <= end, Query(p) returns,
\* as a set, exactly the indices i with S[i] <= p < E[i], for every p of
\* the domain (MINV and MAXV included).
C1_OracleEquivalence ==
    (pc = "queried" /\ ValidInput(arg)) =>
        (~q.ub /\ Range(q.res) = Oracle(q.p, arg))

\* two overlapping intervals, one ending at MAXV, queried where both hold
C1_Witness ==
    /\ pc = "queried"
    /\ ValidInput(arg)
    /\ Len(q.res) = 2
    /\ \E k \in 0..(arg.N - 1) : At(arg.E, k) = MAXV /\ At(arg.S, k) # MINV

\* ---------------------------------------------------------------- C2
\* C2: after Build with S null, E null or N = 0, Query(p) returns the
\* empty set for every p, also on an instance built before.
C2_EmptyInputQueriesEmpty ==
    (pc = "queried" /\ EmptyInput(arg)) => q.res = Empty

\* ---------------------------------------------------------------- C3
\* C3: after Build(Y) on an instance built before, Tab and IList are those
\* of a fresh instance after Build(Y) alone (whatever order the sorts give
\* to ties).
C3_BuildReplaces ==
    (pc = "idle" /\ ValidInput(arg)) =>
        \A ss \in SortOutcomes(FreshFiltered(arg, skipped).loc.SS, arg.S),
           se \in SortOutcomes(FreshFiltered(arg, skipped).loc.SE, arg.E) :
            LET f == FreshBuild(arg, skipped, ss, se)
            IN f.pc = "idle" /\ f.rm.Tab = rm.Tab /\ f.rm.IList = rm.IList

\* the capacity left by an earlier, larger Build shows the instance is reused
C3_Witness ==
    /\ pc = "idle"
    /\ ValidInput(arg)
    /\ NFof(arg) = 1
    /\ rm.capTab > 2 * NFof(arg) + 2

\* ---------------------------------------------------------------- C4
\* C4: for every input with N >= 1, intervals with start > end included,
\* Build runs to completion without any of its assertions failing.
C4_NoAssertionFails ==
    ~EmptyInput(arg) => (pc # "aborted" /\ failed = "none")

\* ---------------------------------------------------------------- C5
\* C5: every entry of IList, and so every Query result, lists indices in
\* strictly ascending order without repeats; on inputs with start <= end
\* the result equals the brute-force scan's vector element by element.
C5_AscendingOrder ==
    /\ \A k \in 1..Len(rm.IList) : StrictAsc(rm.IList[k])
    /\ (pc = "queried" /\ ~q.ub) => StrictAsc(q.res)
    /\ (pc = "queried" /\ ValidInput(arg)) =>
           q.res = SlowCheck(q.p, arg.S, arg.E, arg.N)

C5_Witness ==
    /\ pc = "queried"
    /\ ValidInput(arg)
    /\ q.res = <<0, 1>>
    /\ At(arg.S, 1) < At(arg.S, 0)

\* ---------------------------------------------------------------- C6
\* C6 (as stated): after Build on intervals with start <= end, IList[k] #
\* IList[k-1] for every k with 1 <= k < m, the sentinel entries counted.
C6_AllAdjacentDiffer ==
    (Returned /\ ValidInput(arg)) =>
        \A k \in 1..(Size(rm.IList) - 1) : At(rm.IList, k) # At(rm.IList, k - 1)

\* the maximum sentinel was appended by the Build of a (lines 83-86)
MaxOf(A) == CHOOSE x \in A : \A y \in A : y <= x
MaxAppended(a) ==
    NFof(a) = 0 \/ MaxOf({At(a.E, k) : k \in NonDegenerate(a)}) < MAXV

\* C6 (amended): IList[k] # IList[k-1] for every k with 1 <= k < m except
\* the entry of the appended maximum sentinel.
C6_SweptAdjacentDiffer ==
    (Returned /\ ValidInput(arg)) =>
        \A k \in 1..(Size(rm.IList) - 1) :
            \/ (k = Size(rm.IList) - 1 /\ MaxAppended(arg))
            \/ At(rm.IList, k) # At(rm.IList, k - 1)

C6_Witness ==
    /\ pc = "idle"
    /\ ValidInput(arg)
    /\ MaxAppended(arg)
    /\ Size(rm.IList) = 4
    /\ NFof(arg) = 2

\* ---------------------------------------------------------------- C7
\* C7: after Build on intervals with start <= end, Tab is strictly
\* increasing, begins with MINV and ends with MAXV, also when a start is
\* MINV or an end is MAXV.
C7_MonotonicBreakpoints ==
    (Returned /\ ValidInput(arg)) =>
        /\ \A k \in 1..(Size(rm.Tab) - 1) : At(rm.Tab, k - 1) < At(rm.Tab, k)
        /\ Size(rm.Tab) >= 2
        /\ At(rm.Tab, 0) = MINV
        /\ At(rm.Tab, Size(rm.Tab) - 1) = MAXV

\* an interval from MINV and an interval to MAXV: no sentinel is appended
C7_Witness ==
    /\ pc = "idle"
    /\ ValidInput(arg)
    /\ \E k \in NonDegenerate(arg) : At(arg.S, k) = MINV
    /\ \E k \in NonDegenerate(arg) : At(arg.E, k) = MAXV
    /\ Size(rm.Tab) = 3

\* ---------------------------------------------------------------- C8
\* C8: on a structure built from intervals with start <= end, the lower
\* bound search finds an entry >= p, the index read lies in 0..m-1, and the
\* result is IList[x] for x the largest index with Tab[x] <= p; a never
\* built instance returns the empty set.
LargestLE(T, p) ==
    {x \in 0..(Size(T) - 1) :
        At(T, x) <= p /\ \A y \in (x + 1)..(Size(T) - 1) : At(T, y) > p}
C8_QueryLookup ==
    /\ (pc = "queried" /\ ValidInput(arg)) =>
        /\ ~q.ub
        /\ q.It < Size(rm.Tab)
        /\ At(rm.Tab, q.It) >= q.p
        /\ q.idx \in 0..(Size(rm.Tab) - 1)
        /\ LargestLE(rm.Tab, q.p) = {q.idx}
        /\ q.res = At(rm.IList, q.idx)
    /\ (pc = "queried" /\ Size(rm.Tab) = 0) => (~q.ub /\ q.res = Empty)

\* a point strictly between two breakpoints: the entry found is > p
C8_Witness ==
    /\ pc = "queried"
    /\ ValidInput(arg)
    /\ At(rm.Tab, q.It) > q.p
    /\ q.idx = q.It - 1
    /\ q.res # Empty

\* ---------------------------------------------------------------- C9
\* C9: during and after Build on intervals with start <= end, Tab and
\* IList have the same length, at most 2*NF + 2; SS and SE hold at most N
\* entries; every append finds spare capacity.
C9_TableSizeBound ==
    ValidInput(arg) =>
        /\ Size(rm.Tab) = Size(rm.IList)
        /\ failed # "pushback"
        /\ Size(loc.SS) <= arg.N /\ Size(loc.SE) <= arg.N
        /\ Size(loc.SS) = Size(loc.SE)
        /\ (pc = "filter" /\ loc.i < arg.N) =>
               (CapOK(loc.capSS, loc.SS) /\ CapOK(loc.capSE, loc.SE))
        /\ pc \in {"reset", "sweep"} => loc.NF = NFof(arg)
        /\ pc \in {"sweep", "idle", "queried"} =>
               Size(rm.Tab) <= 2 * NFof(arg) + 2
        /\ (pc = "sweep" /\ (SweepCond(loc) \/ NeedMax(arg, loc))) =>
               (CapOK(rm.capTab, rm.Tab) /\ CapOK(rm.capIL, rm.IList))

\* the bound is met: both sentinels and 2*NF swept entries
C9_Witness ==
    /\ pc = "idle"
    /\ ValidInput(arg)
    /\ NFof(arg) = 1
    /\ Size(rm.Tab) = 2 * NFof(arg) + 2
    /\ rm.capTab = Size(rm.Tab)

\* --------------------------------------------------------------- C10
\* C10: for every input with N >= 1 (start > end allowed) each iteration
\* of the sweep loop consumes a pending start or end, the values recorded
\* by successive iterations strictly increase, there are at most 2*NF
\* iterations (i1 + i2 is a bounded, strictly increasing variant), and the
\* loop is left with i1 = i2 = NF.
C10_SweepTerminates ==
    /\ [][SweepStep =>
            /\ loc'.i1 + loc'.i2 > loc.i1 + loc.i2
            /\ loc'.i1 <= loc.NF /\ loc'.i2 <= loc.NF
            /\ loc'.iter = loc.iter + 1
            /\ loc'.iter <= 2 * loc.NF
            /\ (loc.iter >= 1 /\ Size(rm'.Tab) = Size(rm.Tab) + 1) =>
                   At(rm'.Tab, Size(rm.Tab)) > At(rm.Tab, Size(rm.Tab) - 1)]_vars
    /\ [][TailStep => (loc.i1 = loc.NF /\ loc.i2 = loc.NF)]_vars

\* a malformed interval has been swept in two iterations
C10_Witness ==
    /\ pc = "sweep"
    /\ ~SweepCond(loc)
    /\ loc.iter = 2 * loc.NF
    /\ \E k \in 0..(arg.N - 1) : At(arg.S, k) > At(arg.E, k)
====
